---- MODULE Spec2Model ----
(***************************************************************************)
(* Chart lifecycle controller of StockChartModal (src/unnamed/part_002)    *)
(* together with the parent page that owns the selection                   *)
(* (src/unnamed/part_000, Home; src/app/analysis/page.tsx, ClosingPage).   *)
(*                                                                         *)
(* One step of the model is one browser task: a user event, a callback     *)
(* ref invocation, a timer callback or a promise settlement, followed by   *)
(* the React renders and effect passes it triggers, run to quiescence.     *)
(***************************************************************************)
EXTENDS Integers, Sequences, FiniteSets, TLC

\* ---------------------------------------------------------------- bounds
MaxInflight == 2      \* history requests that may be in flight at once
MaxLen == 3           \* records in one history response (sort)
MaxDate == 3          \* distinct trading days a response may mention
MaxClose == 2         \* distinct close prices (tells equal-date records apart)

\* ------------------------------------------------------------- constants
FallbackWidth == 600  \* clientWidth || 600

Tickers == {"005930", "000660"}
\* an entity is a record of ticker, gpt_recommendation.action and theme
NoSignal == [ticker |-> "", action |-> "N/A", theme |-> ""]
ListSignal(t) == [ticker |-> t, action |-> "N/A", theme |-> "semis"]
NoError == "none"
ErrAnalysis == "Analysis failed. Please try again."
ErrInit == "Chart initialization failed."
ErrLoad == "Failed to load chart data"
NoResult == "none"
\* bodies fetchStockAnalysis(t) may resolve with: the optional fields of
\* Signal are present or not
AnalysisResponses(t) ==
    {[ticker |-> t],
     [ticker |-> t, action |-> "BUY"],
     [ticker |-> t, theme |-> "ai"],
     [ticker |-> t, action |-> "BUY", theme |-> "ai"]}
Widths == {0, 800}
Ids == 1..(MaxInflight + 3)

Rows == [date : 1..MaxDate, close : 1..MaxClose]
RowSeqs == UNION {[1..n -> Rows] : n \in 0..MaxLen}
Row(d, c) == [date |-> d, close |-> c]
\* the responses the lifecycle model draws from: null, empty, out of order,
\* with a repeated day
HistoryResponses ==
    {[isNull |-> TRUE, rows |-> <<>>],
     [isNull |-> FALSE, rows |-> <<>>],
     [isNull |-> FALSE, rows |-> <<Row(2, 1), Row(1, 2)>>],
     [isNull |-> FALSE, rows |-> <<Row(1, 1), Row(1, 2)>>]}

\* ----------------------------------------------------- render layer data
\* a signal record as the views read it: the optional fields of Signal are
\* present or not.  contraction_ratio is held in hundredths.
With(r, f, v) == [x \in DOMAIN r \cup {f} |-> IF x = f THEN v ELSE r[x]]
Totals == {0, 149, 150, 239, 240, 300}
Scores == {0, 49, 50, 80, 150, 240}
Supplies == {0, 999, 1000, 1500000, -2300, -1000000}
Optional(rs, f, vs) == rs \cup {With(r, f, v) : r \in rs, v \in vs}
RenderSignals ==
    LET base == {[ticker |-> "005930", score |-> sc] : sc \in Scores}
        a == Optional(base, "nice_layers",
                      {[total |-> t] : t \in Totals}
                        \cup {[total |-> 240, L1_technical |-> 70]})
        b == Optional(a, "foreign_5d", Supplies)
        c == Optional(b, "inst_5d", {-2300})
        d == Optional(c, "tp1", {75000})
        e == Optional(d, "tp2", {81000})
        f == Optional(e, "contraction_ratio", {82})
    IN Optional(f, "total_score", {240})
NoRow == [ticker |-> ""]
NotRendered == [rendered |-> FALSE]

\* a field read: the number, or undefined when the record lacks the field
undefined == [def |-> FALSE, n |-> 0]
Get(r, f) == IF f \in DOMAIN r THEN [def |-> TRUE, n |-> r[f]] ELSE undefined

\* JavaScript truthiness of a number-or-undefined
Truthy(v) == v.def /\ v.n # 0

\* v || 0
OrZero(v) == IF Truthy(v) THEN v.n ELSE 0

\* ------------------------------------------------------ fetch layer data
\* the repository holds two copies of lib/api: the first hands fetchJson
\* paths relative to the page's origin, the second prefixes API_BASE
LibCopies == {"first", "second"}
EnvUrls == {"", "https://kr.example.com/api/kr"}

\* lib/api: process.env.NEXT_PUBLIC_API_URL || 'http://localhost:5000/api/kr'
API_BASE(env) == IF env = "" THEN "http://localhost:5000/api/kr" ELSE env
\* analysis/page.tsx: process.env.NEXT_PUBLIC_API_URL || "http://127.0.0.1:5001"
PageApiBase(env) == IF env = "" THEN "http://127.0.0.1:5001" ELSE env

GetFns == {"fetchSignals", "fetchMarketStatus", "fetchAIAnalysis",
           "fetchMacroIndicators", "fetchSectorPerformance",
           "fetchStockHistory"}
PostFns == {"fetchStockAnalysis"}
FetchFns == GetFns \cup PostFns

\* the path each function of lib/api names; t is the ticker argument
Path(fn, t) ==
    CASE fn = "fetchSignals" -> "/signals"
      [] fn = "fetchMarketStatus" -> "/market-status"
      [] fn = "fetchAIAnalysis" -> "/ai-analysis"
      [] fn = "fetchMacroIndicators" -> "/macro-indicators"
      [] fn = "fetchSectorPerformance" -> "/sector-performance"
      [] fn = "fetchStockHistory" -> "/history/" \o t \o "?period=1y"
      [] OTHER -> "/analyze-stock"

\* the endpoint string handed to fetchJson / postJson
Endpoint(copy, env, fn, t) ==
    IF copy = "first" THEN "/api/kr" \o Path(fn, t)
    ELSE API_BASE(env) \o Path(fn, t)

\* the ticker arguments of the calls
TickerArgs(fn) ==
    IF fn \in {"fetchStockHistory", "fetchStockAnalysis"} THEN Tickers ELSE {""}

\* SWR keys the ClosingPage hands to fetcher
FeedKey == "/api/kr/jongga-v2"
StatusKey == "/api/kr/jongga-v2/status"
FetcherKeys == {FeedKey, StatusKey}

\* what await fetch(...) yields: a rejection (no connection) or a Response
EmptyFeed == "{\"signals\":[],\"count\":0}"
TwoSignals == "{\"signals\":[{\"name\":\"A\",\"score\":50},"
                \o "{\"name\":\"B\",\"score\":40,\"final_score\":90}],"
                \o "\"count\":2}"
ServerError == "{\"error\":\"server\"}"
BodyTexts == {EmptyFeed, TwoSignals, ServerError, "<html>Bad Gateway</html>"}
NetOutcomes ==
    {[kind |-> "networkError", status |-> 0, text |-> ""]}
      \cup {[kind |-> "response", status |-> st, text |-> b] :
                st \in {200, 404, 500}, b \in BodyTexts}

\* Response.ok
Ok(out) == out.status \in 200..299

\* Response.json(): rejects on a body that is not JSON
IsJson(text) == text \in {EmptyFeed, TwoSignals, ServerError}
ParseJson(text) ==
    IF text = EmptyFeed
    THEN [signals |-> <<>>, count |-> 0]
    ELSE IF text = TwoSignals
    THEN [signals |-> <<[name |-> "A", score |-> 50],
                        [name |-> "B", score |-> 40, final_score |-> 90]>>,
          count |-> 2]
    ELSE [error |-> "server"]

NoCall == [fn |-> "", arg |-> ""]
NoRequest == [url |-> "", method |-> "", cache |-> "", body |-> ""]
NoValue == [undefined |-> TRUE]
NoPromise == [state |-> "none", value |-> NoValue, message |-> ""]
Pending == [state |-> "pending", value |-> NoValue, message |-> ""]
Resolved(v) == [state |-> "resolved", value |-> v, message |-> ""]
Rejected(msg) == [state |-> "rejected", value |-> NoValue, message |-> msg]
NoPage == [page |-> "", view |-> "", data |-> NoValue,
           rows |-> 0, count |-> 0, topPick |-> "", message |-> ""]

VARIABLES
    chartOpened,        \* parent: useState(false)
    selectedSignal,     \* parent: useState<Signal | null>(null)
    propId,             \* identity of the object passed as the signal prop
    loading, analyzing, error, signal, analysisResult, containerReady,
    chartContainerRef,  \* 0 = null, otherwise the mounted DOM node
    chartRef,           \* 0 = null, otherwise the id of the chart it holds
    syncDeps,           \* deps of the last run of the sync effect
    chartDeps,          \* deps of the last run of the chart effect
    effectId,           \* cycle whose cleanup is registered (0 = none)
    timers,             \* pending initChart timeouts
    listeners,          \* registered window resize listeners
    charts,             \* live (created, not removed) chart instances
    inflight,           \* fetchStockHistory promises not yet settled whose
                        \* chart is live, by the chart they will load
    orphaned,           \* number of those whose chart has been removed
    analysisReq,        \* fetchStockAnalysis promise not yet settled
    clientWidth,        \* width the container reports
    histIn,             \* sort: rows of a history response
    histOut,            \* sort: the argument of setData
    histPc,             \* sort: "fetched" or "loaded"
    apiCopy,            \* fetch: the copy of lib/api the build resolves
    envUrl,             \* fetch: process.env.NEXT_PUBLIC_API_URL ("" = unset)
    netPc,              \* fetch: "idle", "sent" or "settled"
    call,               \* fetch: the function that was called
    request,            \* fetch: the arguments handed to fetch()
    promise,            \* fetch: the promise the function returned
    pageView,           \* fetch: what the feed page renders
    renderIn,           \* render: the signal record handed to the views
    renderOut           \* render: the cells the views render for it

vars == <<chartOpened, selectedSignal, propId, loading, analyzing, error,
          signal, analysisResult, containerReady, chartContainerRef, chartRef,
          syncDeps, chartDeps, effectId, timers, listeners, charts, inflight,
          orphaned, analysisReq, clientWidth, histIn, histOut, histPc,
          apiCopy, envUrl, netPc, call, request, promise, pageView,
          renderIn, renderOut>>

histVars == <<histIn, histOut, histPc>>
netVars == <<apiCopy, envUrl, netPc, call, request, promise, pageView>>
renderVars == <<renderIn, renderOut>>

modalVars == <<chartOpened, selectedSignal, propId, loading, analyzing, error,
               signal, analysisResult, containerReady, chartContainerRef,
               chartRef, syncDeps, chartDeps, effectId, timers, listeners,
               charts, inflight, orphaned, analysisReq, clientWidth>>

Cur ==
    [chartOpened |-> chartOpened, selectedSignal |-> selectedSignal,
     propId |-> propId, loading |-> loading, analyzing |-> analyzing,
     error |-> error, signal |-> signal, analysisResult |-> analysisResult,
     containerReady |-> containerReady,
     chartContainerRef |-> chartContainerRef, chartRef |-> chartRef,
     syncDeps |-> syncDeps, chartDeps |-> chartDeps, effectId |-> effectId,
     timers |-> timers, listeners |-> listeners, charts |-> charts,
     inflight |-> inflight, orphaned |-> orphaned,
     analysisReq |-> analysisReq, clientWidth |-> clientWidth]

Commit(m) ==
    /\ chartOpened' = m.chartOpened
    /\ selectedSignal' = m.selectedSignal
    /\ propId' = m.propId
    /\ loading' = m.loading
    /\ analyzing' = m.analyzing
    /\ error' = m.error
    /\ signal' = m.signal
    /\ analysisResult' = m.analysisResult
    /\ containerReady' = m.containerReady
    /\ chartContainerRef' = m.chartContainerRef
    /\ chartRef' = m.chartRef
    /\ syncDeps' = m.syncDeps
    /\ chartDeps' = m.chartDeps
    /\ effectId' = m.effectId
    /\ timers' = m.timers
    /\ listeners' = m.listeners
    /\ charts' = m.charts
    /\ inflight' = m.inflight
    /\ analysisReq' = m.analysisReq
    /\ clientWidth' = m.clientWidth
    /\ orphaned' = m.orphaned
    /\ UNCHANGED <<histVars, netVars, renderVars>>

\* ------------------------------------------------------- chart instances
ChartIds(cs) == {c.id : c \in cs}

\* variant: the ref is cleared without remove()
RemoveChartNoDispose(m) == [m EXCEPT !.chartRef = 0]

\* chartRef.current.remove(); chartRef.current = null: the instance leaves
\* the live set, a request that was to load it is left without a chart
RemoveChart(m) ==
    IF m.chartRef # 0
    THEN [m EXCEPT !.charts = {c \in @ : c.id # m.chartRef},
                   !.inflight = @ \ {m.chartRef},
                   !.orphaned = @ + Cardinality(m.inflight \cap {m.chartRef}),
                   !.chartRef = 0]
    ELSE m

UsedIds(m) ==
    {t.id : t \in m.timers} \cup m.listeners \cup ChartIds(m.charts)
        \cup m.inflight \cup ({m.effectId} \ {0})

FreeIds(m) == Ids \ UsedIds(m)

FreshId(m) == CHOOSE i \in FreeIds(m) : \A j \in FreeIds(m) : i <= j

\* ------------------------------------------------------------ the effects
ChartDepsOf(m) == <<m.chartOpened, m.signal.ticker, m.containerReady>>
SyncDepsOf(m) == <<m.propId, m.chartOpened>>

\* variant: the cleanup leaves the timeout and the listener in place
CleanupNoClear(m) ==
    IF m.effectId = 0 THEN m ELSE RemoveChart([m EXCEPT !.effectId = 0])

\* return () => { clearTimeout; removeEventListener; chart.remove() }
Cleanup(m) ==
    IF m.effectId = 0 THEN m
    ELSE RemoveChart([m EXCEPT !.timers = {t \in @ : t.id # m.effectId},
                               !.listeners = @ \ {m.effectId},
                               !.effectId = 0])

\* variant: the guard does not look at opened
ChartEffectBodyNoOpened(m, id) ==
    IF \/ m.signal = NoSignal
       \/ ~m.containerReady
       \/ m.chartContainerRef = 0
    THEN m
    ELSE LET d == RemoveChart([m EXCEPT !.error = NoError])
         IN [d EXCEPT !.timers = @ \cup {[id |-> id, ticker |-> m.signal.ticker]},
                      !.listeners = @ \cup {id},
                      !.effectId = id]

\* body of the chart useEffect, run for cycle id
ChartEffectBody(m, id) ==
    IF \/ ~m.chartOpened
       \/ m.signal = NoSignal
       \/ ~m.containerReady
       \/ m.chartContainerRef = 0
    THEN m
    ELSE LET d == RemoveChart([m EXCEPT !.error = NoError])
         IN [d EXCEPT !.timers = @ \cup {[id |-> id, ticker |-> m.signal.ticker]},
                      !.listeners = @ \cup {id},
                      !.effectId = id]

\* variant: the effect builds the chart itself instead of arming a timer
ChartEffectSync(m) ==
    IF m.chartDeps = ChartDepsOf(m) THEN m
    ELSE LET id == FreshId(m)
             b == [ChartEffectBody(Cleanup(m), id) EXCEPT !.chartDeps = ChartDepsOf(m)]
             chart == [id |-> id, node |-> b.chartContainerRef,
                       ticker |-> b.signal.ticker,
                       width |-> IF b.clientWidth = 0 THEN FallbackWidth
                                 ELSE b.clientWidth,
                       data |-> <<>>]
         IN IF b.effectId # id THEN b
            ELSE [b EXCEPT !.timers = {}, !.charts = @ \cup {chart},
                           !.chartRef = id]

\* useEffect(..., [opened, signal?.ticker, containerReady]): cleanup of the
\* last run, then the body, when a dependency changed
ChartEffect(m) ==
    IF m.chartDeps = ChartDepsOf(m) THEN m
    ELSE LET id == FreshId(m)
         IN [ChartEffectBody(Cleanup(m), id) EXCEPT !.chartDeps = ChartDepsOf(m)]

\* useEffect(() => { setSignal; setAnalysisResult; if (opened) setLoading })
SyncEffect(m, r) ==
    IF r.syncDeps = SyncDepsOf(r) THEN m
    ELSE [m EXCEPT !.signal = r.selectedSignal,
                   !.analysisResult = NoResult,
                   !.loading = IF r.chartOpened THEN TRUE ELSE @,
                   !.syncDeps = SyncDepsOf(r)]

\* one render followed by its effect pass: both effects see the rendered
\* values r; the state they set shows in the next render
Pass(r) == SyncEffect(ChartEffect(r), r)

RECURSIVE Settle(_)
Settle(m) == IF Pass(m) = m THEN m ELSE Settle(Pass(m))

CanStart(m) == Cardinality(FreeIds(m)) >= 2

\* ------------------------------------------------------------------ Init
InitModal ==
    /\ chartOpened = FALSE
    /\ selectedSignal = NoSignal
    /\ propId = 0
    /\ loading = FALSE
    /\ analyzing = FALSE
    /\ error = NoError
    /\ signal = NoSignal
    /\ analysisResult = NoResult
    /\ containerReady = FALSE
    /\ chartContainerRef = 0
    /\ chartRef = 0
    /\ syncDeps = <<0, FALSE>>
    /\ chartDeps = <<FALSE, "", FALSE>>
    /\ effectId = 0
    /\ timers = {}
    /\ listeners = {}
    /\ charts = {}
    /\ inflight = {}
    /\ analysisReq = ""
    /\ clientWidth \in Widths
    /\ orphaned = 0

\* nothing has been rendered
RenderIdle ==
    /\ renderIn = NoRow
    /\ renderOut = NotRendered

\* no request has been issued
NetIdle ==
    /\ netPc = "idle"
    /\ call = NoCall
    /\ request = NoRequest
    /\ promise = NoPromise
    /\ pageView = NoPage

Init ==
    /\ InitModal
    /\ histIn = <<>>
    /\ histOut = <<>>
    /\ histPc = "none"
    /\ apiCopy = "second"
    /\ envUrl = ""
    /\ NetIdle
    /\ RenderIdle

\* --------------------------------------------------------- parent events
\* Home.handleSignalClick / ClosingPage.handleSignalClick
handleSignalClick(t) ==
    /\ CanStart(Cur)
    /\ \/ selectedSignal.ticker # t
       \/ ~chartOpened
    /\ Commit(Settle([Cur EXCEPT
            !.selectedSignal = ListSignal(t),
            !.propId = IF selectedSignal.ticker # t THEN 1 - @ ELSE @,
            !.chartOpened = TRUE]))

\* onClose={() => setChartOpened(false)}
onClose ==
    /\ chartOpened
    /\ Commit(Settle([Cur EXCEPT !.chartOpened = FALSE]))

\* ClosingPage passes signal={{ ... }}: every parent render hands the modal
\* an object of a new identity with the same fields
ParentRerender ==
    /\ selectedSignal # NoSignal
    /\ CanStart(Cur)
    /\ Commit(Settle([Cur EXCEPT !.propId = 1 - @]))

\* ---------------------------------------------------------- callback ref
\* a mounted div is a node no live chart was created in
NewNode(m) == IF 1 \in {c.node : c \in m.charts} THEN 2 ELSE 1

\* setChartContainerRef(node): the Modal content (and the container div) is
\* rendered while the view is open and the component does not return null
ContainerMount ==
    /\ chartOpened
    /\ signal # NoSignal
    /\ chartContainerRef = 0
    /\ CanStart(Cur)
    /\ Commit(Settle([Cur EXCEPT !.chartContainerRef = NewNode(Cur),
                                 !.containerReady = TRUE]))

\* setChartContainerRef(null): the Modal drops its content after the close
\* transition
ContainerUnmount ==
    /\ ~chartOpened
    /\ chartContainerRef # 0
    /\ Commit(Settle([Cur EXCEPT !.chartContainerRef = 0,
                                 !.containerReady = FALSE]))

\* the page is left: React runs the registered cleanup and drops the
\* component; a later visit starts from a new component.  Promises of the
\* dropped component still settle, but their setState calls do nothing and
\* their chart is removed: they are dropped with the component.
ComponentUnmount ==
    /\ \/ signal # NoSignal
       \/ chartOpened
    /\ LET c == Cleanup(Cur)
       IN Commit([c EXCEPT
            !.chartOpened = FALSE, !.selectedSignal = NoSignal, !.propId = 0,
            !.loading = FALSE, !.analyzing = FALSE, !.error = NoError,
            !.signal = NoSignal, !.analysisResult = NoResult,
            !.containerReady = FALSE, !.chartContainerRef = 0,
            !.syncDeps = <<0, FALSE>>, !.chartDeps = <<FALSE, "", FALSE>>,
            !.inflight = {}, !.orphaned = 0,
            !.analysisReq = ""])

\* ------------------------------------------------- deferred construction
Outcomes == {"ok", "createThrows", "addSeriesThrows"}

ContainerWidth(m) == IF m.clientWidth = 0 THEN FallbackWidth ELSE m.clientWidth

\* variant: the callback does not store the instance in chartRef
InitChartCallbackNoRef(m, t, outcome) ==
    LET m0 == [m EXCEPT !.timers = @ \ {t}]
    IN IF m0.chartContainerRef = 0 THEN m0
       ELSE LET m1 == RemoveChart(m0)
                chart == [id |-> t.id, node |-> m1.chartContainerRef,
                          ticker |-> t.ticker, width |-> ContainerWidth(m1),
                          data |-> <<>>]
                m2 == [m1 EXCEPT !.charts = @ \cup {chart}]
            IN CASE outcome = "createThrows" -> m1
                 [] outcome = "addSeriesThrows" ->
                        [m2 EXCEPT !.error = ErrInit, !.loading = FALSE]
                 [] OTHER -> [m2 EXCEPT !.inflight = @ \cup {t.id}]

\* the callback handed to setTimeout
InitChartCallback(m, t, outcome) ==
    LET m0 == [m EXCEPT !.timers = @ \ {t}]
    IN IF m0.chartContainerRef = 0 THEN m0
       ELSE LET m1 == RemoveChart(m0)
                chart == [id |-> t.id, node |-> m1.chartContainerRef,
                          ticker |-> t.ticker, width |-> ContainerWidth(m1),
                          data |-> <<>>]
                m2 == [m1 EXCEPT !.charts = @ \cup {chart}, !.chartRef = t.id]
            IN CASE outcome = "createThrows" -> m1
                 [] outcome = "addSeriesThrows" ->
                        [m2 EXCEPT !.error = ErrInit, !.loading = FALSE]
                 [] OTHER ->
                        [m2 EXCEPT !.inflight = @ \cup {t.id}]

initChart(t, outcome) ==
    /\ t \in timers
    /\ outcome = "ok" => Cardinality(inflight) + orphaned < MaxInflight
    /\ Commit(Settle(InitChartCallback(Cur, t, outcome)))

\* ------------------------------------------------------- history response
\* new Date(time).getTime() of a 'YYYY-MM-DD' day: milliseconds since epoch
GetTime(time) == time * 86400000

\* data.map(d => ({ time: d.date, ..., close: d.close }))
ChartPoint(d) == [time |-> d.date, close |-> d.close]
MapPoints(rows) == [i \in 1..Len(rows) |-> ChartPoint(rows[i])]

\* variant: the comparator with its operands exchanged
CompareReversed(a, b) == GetTime(b.time) - GetTime(a.time)

\* the sort comparator: (a, b) => getTime(a.time) - getTime(b.time)
Compare(a, b) == GetTime(a.time) - GetTime(b.time)

\* Array.prototype.sort is stable: x goes behind every element the
\* comparator does not put after it
InsertSorted(s, x) ==
    LET k == Cardinality({i \in 1..Len(s) : Compare(s[i], x) <= 0})
    IN SubSeq(s, 1, k) \o <<x>> \o SubSeq(s, k + 1, Len(s))

RECURSIVE SortPoints(_)
SortPoints(s) ==
    IF s = <<>> THEN <<>>
    ELSE InsertSorted(SortPoints(SubSeq(s, 1, Len(s) - 1)), s[Len(s)])

StrictlyAscending(s) ==
    \A i \in 1..(Len(s) - 1) : GetTime(s[i].time) < GetTime(s[i + 1].time)

\* candlestickSeries.setData(chartData); chart.timeScale().fitContent()
SetData(m, id, sorted) ==
    [m EXCEPT !.charts = {IF c.id = id THEN [c EXCEPT !.data = sorted] ELSE c
                            : c \in @}]

\* chartData as handed to setData for the response rows
ChartDataOf(rows) == SortPoints(MapPoints(rows))

\* .then(...).catch(...).finally(...) of fetchStockHistory, data received;
\* id = 0 stands for a chart that has been removed
HistoryThen(m, id, resp, throws) ==
    IF resp.isNull \/ Len(resp.rows) = 0
    THEN [m EXCEPT !.loading = FALSE]
    ELSE IF throws
         THEN [m EXCEPT !.error = ErrLoad, !.loading = FALSE]
         ELSE [SetData(m, id, ChartDataOf(resp.rows)) EXCEPT !.loading = FALSE]

\* the chart library rejects a call on a removed chart, and (in development
\* builds) data that is not strictly ascending
MayThrow(id, resp) ==
    /\ ~resp.isNull
    /\ Len(resp.rows) > 0
    /\ \/ id = 0
       \/ ~StrictlyAscending(ChartDataOf(resp.rows))

HistorySuccess(id, resp, throws) ==
    /\ id \in inflight
    /\ throws => MayThrow(id, resp)
    /\ Commit(Settle(HistoryThen([Cur EXCEPT !.inflight = @ \ {id}],
                                 id, resp, throws)))

OrphanSuccess(resp, throws) ==
    /\ orphaned > 0
    /\ throws => MayThrow(0, resp)
    /\ Commit(Settle(HistoryThen([Cur EXCEPT !.orphaned = @ - 1],
                                 0, resp, throws)))

\* variant: the rejection handler also disposes the chart
HistoryCatchDisposes(m) ==
    RemoveChart([m EXCEPT !.error = ErrLoad, !.loading = FALSE])

\* .catch(...).finally(...) of fetchStockHistory, promise rejected
HistoryCatch(m) == [m EXCEPT !.error = ErrLoad, !.loading = FALSE]

HistoryFail(id) ==
    /\ id \in inflight
    /\ Commit(Settle(HistoryCatch([Cur EXCEPT !.inflight = @ \ {id}])))

OrphanFail ==
    /\ orphaned > 0
    /\ Commit(Settle(HistoryCatch([Cur EXCEPT !.orphaned = @ - 1])))

\* ----------------------------------------------------------------- resize
\* variant: the handler rebuilds the chart instead of resizing it
ResizeHandlersRebuild(m, w) ==
    LET m0 == [m EXCEPT !.clientWidth = w]
    IN IF m0.listeners # {} /\ m0.chartContainerRef # 0 /\ m0.chartRef # 0
       THEN [RemoveChart(m0) EXCEPT !.loading = TRUE]
       ELSE m0

\* window 'resize': every registered handleResize runs
ResizeHandlers(m, w) ==
    LET m0 == [m EXCEPT !.clientWidth = w]
    IN IF m0.listeners # {} /\ m0.chartContainerRef # 0 /\ m0.chartRef # 0
       THEN [m0 EXCEPT !.charts = {IF c.id = m0.chartRef
                                   THEN [c EXCEPT !.width = w] ELSE c : c \in @}]
       ELSE m0

handleResize(w) ==
    /\ w # clientWidth
    /\ Commit(Settle(ResizeHandlers(Cur, w)))

\* ------------------------------------------------------------ re-analysis
\* handleReAnalyze up to the await; the button is part of the Modal content
\* and is disabled while analyzing
\* variant: the action raises the chart's busy indicator as well
ReAnalyzeStartSharedBusy(m) ==
    [m EXCEPT !.analyzing = TRUE, !.loading = TRUE,
              !.analysisResult = NoResult,
              !.analysisReq = m.signal.ticker]

\* setAnalyzing(true); setAnalysisResult(null); fetchStockAnalysis(ticker)
ReAnalyzeStart(m) ==
    [m EXCEPT !.analyzing = TRUE,
              !.analysisResult = NoResult,
              !.analysisReq = m.signal.ticker]

CanReAnalyze(m) ==
    /\ m.signal # NoSignal
    /\ m.chartContainerRef # 0
    /\ ~m.analyzing

handleReAnalyze ==
    /\ CanReAnalyze(Cur)
    /\ Commit(Settle(ReAnalyzeStart(Cur)))

\* variant: the response replaces the entity, absent fields are reset
MergeSignalReplace(prev, fresh) ==
    [f \in DOMAIN prev \cup DOMAIN fresh |->
        IF f \in DOMAIN fresh THEN fresh[f] ELSE NoSignal[f]]

\* { ...prev, ...freshSignal }
MergeSignal(prev, fresh) ==
    [f \in DOMAIN prev \cup DOMAIN fresh |->
        IF f \in DOMAIN fresh THEN fresh[f] ELSE prev[f]]

\* handleReAnalyze after the await resolved with freshSignal: the merge is
\* queued, then rec.source is read, which throws when the response has no
\* gpt_recommendation
ReAnalyzeResolved(m, fresh) ==
    LET m0 == [m EXCEPT !.signal = MergeSignal(@, fresh),
                        !.analysisReq = "",
                        !.analyzing = FALSE]
    IN IF "action" \notin DOMAIN fresh
       THEN [m0 EXCEPT !.error = ErrAnalysis]
       ELSE [m0 EXCEPT !.analysisResult = fresh.action]

ReAnalyzeSuccess(fresh) ==
    /\ analysisReq # ""
    /\ fresh \in AnalysisResponses(analysisReq)
    /\ CanStart(Cur)
    /\ Commit(Settle(ReAnalyzeResolved(Cur, fresh)))

\* handleReAnalyze after the await rejected
ReAnalyzeRejected(m) ==
    [m EXCEPT !.error = ErrAnalysis, !.analysisReq = "", !.analyzing = FALSE]

ReAnalyzeFail ==
    /\ analysisReq # ""
    /\ Commit(Settle(ReAnalyzeRejected(Cur)))

Next ==
    \/ \E t \in Tickers : handleSignalClick(t)
    \/ onClose
    \/ ParentRerender
    \/ ContainerMount
    \/ ContainerUnmount
    \/ ComponentUnmount
    \/ \E t \in timers, o \in Outcomes : initChart(t, o)
    \/ \E id \in inflight, r \in HistoryResponses, th \in BOOLEAN :
            HistorySuccess(id, r, th)
    \/ \E r \in HistoryResponses, th \in BOOLEAN : OrphanSuccess(r, th)
    \/ \E id \in inflight : HistoryFail(id)
    \/ OrphanFail
    \/ \E w \in Widths : handleResize(w)
    \/ handleReAnalyze
    \/ \E fresh \in AnalysisResponses(analysisReq) : ReAnalyzeSuccess(fresh)
    \/ ReAnalyzeFail

Spec == Init /\ [][Next]_vars

\* ------------------------------------------------ the sort, on its own
\* a history response of any order and with any repetition of days is
\* mapped, sorted and handed to setData
InitSort ==
    /\ InitModal
    /\ histIn \in RowSeqs \ {<<>>}
    /\ histOut = <<>>
    /\ histPc = "fetched"
    /\ apiCopy = "second"
    /\ envUrl = ""
    /\ NetIdle
    /\ RenderIdle

LoadSeries ==
    /\ histPc = "fetched"
    /\ histOut' = ChartDataOf(histIn)
    /\ histPc' = "loaded"
    /\ UNCHANGED <<modalVars, netVars, renderVars, histIn>>

NextSort == LoadSeries

SortSpec == InitSort /\ [][NextSort]_vars

\* ------------------------------------------------------ the fetch layer
\* fetch(endpoint, { cache: "no-store" })
GetRequest(endpoint) ==
    [url |-> endpoint, method |-> "GET", cache |-> "no-store", body |-> ""]

\* fetch(endpoint, { method: 'POST', headers, body: JSON.stringify(data),
\* cache: 'no-store' })
PostRequest(endpoint, data) ==
    [url |-> endpoint, method |-> "POST", cache |-> "no-store", body |-> data]

\* JSON.stringify({ ticker })
TickerBody(t) == "{\"ticker\":\"" \o t \o "\"}"

\* variant: the status of the response is not looked at
fetchJsonNoStatusCheck(endpoint, out) ==
    IF out.kind = "networkError" THEN Rejected("TypeError")
    ELSE IF ~IsJson(out.text) THEN Rejected("SyntaxError")
    ELSE Resolved(ParseJson(out.text))

\* fetchJson after the await: if (!res.ok) throw ...; return res.json()
fetchJson(endpoint, out) ==
    IF out.kind = "networkError" THEN Rejected("TypeError")
    ELSE IF ~Ok(out) THEN Rejected("Failed to fetch " \o endpoint)
    ELSE IF ~IsJson(out.text) THEN Rejected("SyntaxError")
    ELSE Resolved(ParseJson(out.text))

\* postJson after the await
postJson(endpoint, out) ==
    IF out.kind = "networkError" THEN Rejected("TypeError")
    ELSE IF ~Ok(out) THEN Rejected("Failed to post to " \o endpoint)
    ELSE IF ~IsJson(out.text) THEN Rejected("SyntaxError")
    ELSE Resolved(ParseJson(out.text))

\* ClosingPage: fetch(API_BASE + url), no init object: method GET and the
\* default cache mode
FetcherRequest(env, key) ==
    [url |-> PageApiBase(env) \o key, method |-> "GET", cache |-> "default",
     body |-> ""]

\* ClosingPage: .then(res => res.json())
fetcher(out) ==
    IF out.kind = "networkError" THEN Rejected("TypeError")
    ELSE IF ~IsJson(out.text) THEN Rejected("SyntaxError")
    ELSE Resolved(ParseJson(out.text))

\* ClosingPage.runScreener: fetch(`${API_BASE}/api/kr/jongga-v2/run`,
\* { method: 'POST', headers, body }), no cache option
RunRequest(env) ==
    [url |-> PageApiBase(env) \o "/api/kr/jongga-v2/run", method |-> "POST",
     cache |-> "default", body |-> "{\"capital\":50000000}"]

\* the page whose signal feed a call loads: Home reads fetchSignals through
\* useSWR, ClosingPage reads fetcher(FeedKey)
FeedPage(c) ==
    IF c.fn = "fetchSignals" THEN "home"
    ELSE IF c.fn = "fetcher" /\ c.arg = FeedKey THEN "closing"
    ELSE ""

\* data?.signals || []
SignalsOf(data) == IF "signals" \in DOMAIN data THEN data.signals ELSE <<>>

\* Home: (s.final_score || s.score), the key sortedSignals is ordered by
sortKey(s) ==
    IF Truthy(Get(s, "final_score")) THEN s.final_score ELSE s.score

\* Home: sortedSignals[0], the first of the greatest key (the sort is stable)
topSignal(signals) ==
    signals[CHOOSE i \in 1..Len(signals) :
                \A j \in 1..Len(signals) :
                    \/ sortKey(signals[i]) > sortKey(signals[j])
                    \/ sortKey(signals[i]) = sortKey(signals[j]) /\ i <= j]

Min(a, b) == IF a < b THEN a ELSE b

\* the page while isLoading: the Loader in place of the list
Loader(page) ==
    [page |-> page, view |-> "loading", data |-> NoValue,
     rows |-> 0, count |-> 0, topPick |-> "", message |-> ""]

\* `if (error) return ...`: the full-view error state
ErrorView(page, data) ==
    [page |-> page, view |-> "error", data |-> data,
     rows |-> 0, count |-> 0, topPick |-> "", message |-> ""]

\* variant: no branch for an empty list
PageBodyNoEmptyState(page, data) ==
    LET signals == SignalsOf(data)
    IN [page |-> page, view |-> "table", data |-> data,
        rows |-> IF page = "home" THEN Min(Len(signals), 20)
                                  ELSE Len(signals),
        count |-> Len(signals),
        topPick |-> IF page = "home" /\ Len(signals) > 0
                    THEN topSignal(signals).name ELSE "",
        message |-> ""]

\* what the page renders of the data: the rows of the list, the
\* signals.length card, Home's Top Pick and the ClosingPage's message in
\* place of an empty table
PageBody(page, data) ==
    LET signals == SignalsOf(data)
    IN [page |-> page, view |-> "table", data |-> data,
        rows |-> IF page = "home" THEN Min(Len(signals), 20)
                                  ELSE Len(signals),
        count |-> Len(signals),
        topPick |-> IF page # "home" THEN ""
                    ELSE IF Len(signals) > 0 THEN topSignal(signals).name
                    ELSE "Analyzing...",
        message |-> IF page = "closing" /\ Len(signals) = 0
                    THEN "No signals available. "
                           \o "Run the screener to generate signals."
                    ELSE ""]

\* useSWR while the request is in flight: a page that is on screen keeps
\* what it renders, a page that has just mounted has neither data nor error
StartView(view, page) ==
    IF page = "" \/ view.page = page THEN view
    ELSE Loader(page)

\* useSWR after the promise settled: error is set by a rejection, the
\* cached data stay, and `if (error) return <full-view error with Retry>`;
\* otherwise the resolved value is the data and the page renders its body
SettleView(view, page, pr) ==
    IF page = "" THEN view
    ELSE IF pr.state = "rejected" THEN ErrorView(page, view.data)
    ELSE PageBody(page, pr.value)

CanCall == netPc \in {"idle", "settled"}

\* a function of lib/api is called
CallFetch(fn, t) ==
    /\ CanCall
    /\ LET c == [fn |-> fn, arg |-> t]
           endpoint == Endpoint(apiCopy, envUrl, fn, t)
       IN /\ call' = c
          /\ request' = IF fn \in PostFns
                        THEN PostRequest(endpoint, TickerBody(t))
                        ELSE GetRequest(endpoint)
          /\ pageView' = StartView(pageView, FeedPage(c))
    /\ promise' = Pending
    /\ netPc' = "sent"
    /\ UNCHANGED <<modalVars, histVars, renderVars, apiCopy, envUrl>>

\* useSWR(key, fetcher) of the ClosingPage calls fetcher(key)
CallFetcher(key) ==
    /\ CanCall
    /\ LET c == [fn |-> "fetcher", arg |-> key]
       IN /\ call' = c
          /\ pageView' = StartView(pageView, FeedPage(c))
    /\ request' = FetcherRequest(envUrl, key)
    /\ promise' = Pending
    /\ netPc' = "sent"
    /\ UNCHANGED <<modalVars, histVars, renderVars, apiCopy, envUrl>>

\* the Run button of the ClosingPage
runScreener ==
    /\ CanCall
    /\ pageView.page = "closing"
    /\ call' = [fn |-> "runScreener", arg |-> ""]
    /\ request' = RunRequest(envUrl)
    /\ promise' = Pending
    /\ netPc' = "sent"
    /\ UNCHANGED <<modalVars, histVars, renderVars, apiCopy, envUrl, pageView>>

\* the promise the called function returns, once fetch has settled with out
PromiseOf(c, req, out) ==
    CASE c.fn \in GetFns -> fetchJson(req.url, out)
      [] c.fn \in PostFns -> postJson(req.url, out)
      [] c.fn = "fetcher" -> fetcher(out)
      [] OTHER -> Resolved(NoValue)

\* variant: mutate() after any response, whatever its status
FetchSettleNoOkCheck(out) ==
    /\ netPc = "sent"
    /\ IF call.fn = "runScreener" /\ out.kind = "response"
       THEN /\ call' = [fn |-> "fetcher", arg |-> FeedKey]
            /\ request' = FetcherRequest(envUrl, FeedKey)
            /\ promise' = Pending
            /\ netPc' = "sent"
            /\ UNCHANGED pageView
       ELSE /\ promise' = PromiseOf(call, request, out)
            /\ netPc' = "settled"
            /\ pageView' = SettleView(pageView, FeedPage(call), promise')
            /\ UNCHANGED <<call, request>>
    /\ UNCHANGED <<modalVars, histVars, renderVars, apiCopy, envUrl>>

\* fetch settles.  runScreener catches every error and, on a success
\* status, calls mutate(), which has useSWR call fetcher(FeedKey) again
FetchSettle(out) ==
    /\ netPc = "sent"
    /\ IF call.fn = "runScreener" /\ out.kind = "response" /\ Ok(out)
       THEN /\ call' = [fn |-> "fetcher", arg |-> FeedKey]
            /\ request' = FetcherRequest(envUrl, FeedKey)
            /\ promise' = Pending
            /\ netPc' = "sent"
            /\ UNCHANGED pageView
       ELSE /\ promise' = PromiseOf(call, request, out)
            /\ netPc' = "settled"
            /\ pageView' = SettleView(pageView, FeedPage(call), promise')
            /\ UNCHANGED <<call, request>>
    /\ UNCHANGED <<modalVars, histVars, renderVars, apiCopy, envUrl>>

\* the Retry button of the full-view error: window.location.reload(); the
\* page mounts again with neither data nor error
Retry ==
    /\ pageView.view = "error"
    /\ netPc' = "idle"
    /\ call' = NoCall
    /\ request' = NoRequest
    /\ promise' = NoPromise
    /\ pageView' = Loader(pageView.page)
    /\ UNCHANGED <<modalVars, histVars, renderVars, apiCopy, envUrl>>

InitFetch ==
    /\ InitModal
    /\ histIn = <<>>
    /\ histOut = <<>>
    /\ histPc = "none"
    /\ apiCopy \in LibCopies
    /\ envUrl \in EnvUrls
    /\ NetIdle
    /\ RenderIdle

NextFetch ==
    \/ \E fn \in FetchFns : \E t \in TickerArgs(fn) : CallFetch(fn, t)
    \/ \E key \in FetcherKeys : CallFetcher(key)
    \/ runScreener
    \/ \E out \in NetOutcomes : FetchSettle(out)
    \/ Retry

FetchSpec == InitFetch /\ [][NextFetch]_vars

\* ----------------------------------------------------- the render layer
\* a quotient kept exact
Quot(a, b) == [num |-> a, den |-> b]
GE(q, k) == q.num >= k * q.den

\* Math.round of a non-negative quotient
MathRound(q) == (2 * q.num + q.den) \div (2 * q.den)

Pow10(d) == IF d = 0 THEN 1 ELSE IF d = 1 THEN 10 ELSE 100

\* the decimal digits of n, at least d of them
Digits(n, d) ==
    IF d = 2 /\ n < 10 THEN "0" \o ToString(n) ELSE ToString(n)

\* Number.prototype.toFixed of the non-negative quotient q (d is 1 or 2)
toFixed(q, d) ==
    LET scaled == MathRound(Quot(q.num * Pow10(d), q.den))
    IN ToString(scaled \div Pow10(d)) \o "." \o Digits(scaled % Pow10(d), d)

Pad3(n) ==
    IF n < 10 THEN "00" \o ToString(n)
    ELSE IF n < 100 THEN "0" \o ToString(n)
    ELSE ToString(n)

RECURSIVE Grouped(_)
Grouped(n) ==
    IF n < 1000 THEN ToString(n)
    ELSE Grouped(n \div 1000) \o "," \o Pad3(n % 1000)

\* Number.prototype.toLocaleString, digits grouped in threes
toLocaleString(n) == IF n < 0 THEN "-" \o Grouped(-n) ELSE Grouped(n)

Abs(n) == IF n < 0 THEN -n ELSE n

\* variant: no guard for a missing value (Math.abs(undefined) is NaN)
formatSupplyNoGuard(val) ==
    IF ~val.def THEN [text |-> "NaN", color |-> "blue"]
    ELSE LET absVal == Abs(val.n)
             isBuy == val.n > 0
             formatted ==
                 IF absVal >= 1000000
                 THEN toFixed(Quot(absVal, 1000000), 1) \o "M"
                 ELSE IF absVal >= 1000
                 THEN toFixed(Quot(absVal, 1000), 1) \o "K"
                 ELSE ToString(absVal)
         IN [text  |-> (IF isBuy THEN "+" ELSE "") \o formatted,
             color |-> IF isBuy THEN "red" ELSE "blue"]

\* SignalTable: the supply-flow cell
formatSupply(val) ==
    IF ~Truthy(val) THEN [text |-> "-", color |-> "dimmed"]
    ELSE LET absVal == Abs(val.n)
             isBuy == val.n > 0
             color == IF isBuy THEN "red" ELSE "blue"
             sign == IF isBuy THEN "+" ELSE ""
             formatted ==
                 IF absVal >= 1000000
                 THEN toFixed(Quot(absVal, 1000000), 1) \o "M"
                 ELSE IF absVal >= 1000
                 THEN toFixed(Quot(absVal, 1000), 1) \o "K"
                 ELSE ToString(absVal)
         IN [text |-> sign \o formatted, color |-> color]

\* SignalTable: the score of a row, before rounding
niceScore(sig) ==
    IF "nice_layers" \in DOMAIN sig /\ Truthy(Get(sig.nice_layers, "total"))
    THEN Quot(sig.nice_layers.total * 100, 300)
    ELSE IF Truthy(Get(sig, "score"))
    THEN IF sig.score > 100 THEN Quot(sig.score * 100, 300)
                            ELSE Quot(sig.score, 1)
    ELSE Quot(0, 1)

\* variant: the upper band starts above 80
progressColorStrict(q) ==
    IF q.num > 80 * q.den THEN "teal"
    ELSE IF GE(q, 50) THEN "yellow" ELSE "gray"

\* SignalTable: the band of the unrounded score
progressColor(q) ==
    IF GE(q, 80) THEN "teal" ELSE IF GE(q, 50) THEN "yellow" ELSE "gray"

\* SignalTable: the cells of one row
TableRow(sig) ==
    [score   |-> [text  |-> ToString(MathRound(niceScore(sig))),
                  color |-> progressColor(niceScore(sig))],
     foreign |-> formatSupply(Get(sig, "foreign_5d")),
     inst    |-> formatSupply(Get(sig, "inst_5d")),
     tp1     |-> toLocaleString(OrZero(Get(sig, "tp1")))]

\* StockChartModal: nice_layers, or the signal itself
layers(sig) ==
    IF "nice_layers" \in DOMAIN sig THEN sig.nice_layers ELSE sig

\* StockChartModal: layers.total || layers.total_score || 0
totalScore(sig) ==
    IF Truthy(Get(layers(sig), "total"))
    THEN layers(sig).total
    ELSE OrZero(Get(layers(sig), "total_score"))

\* StockChartModal: the rounded score handed to the radar
modalNiceScore(sig) ==
    IF totalScore(sig) # 0
    THEN MathRound(Quot(totalScore(sig) * 100, 300))
    ELSE 0

\* NiceRadarChart: the band of the score it is given
scoreColor(score) ==
    IF score >= 80 THEN "teal" ELSE IF score >= 50 THEN "yellow" ELSE "gray"

\* StockChartModal: the cells that read optional fields
ModalCells(sig) ==
    [score       |-> [text  |-> ToString(modalNiceScore(sig)),
                      color |-> scoreColor(modalNiceScore(sig))],
     technical   |-> OrZero(Get(layers(sig), "L1_technical")),
     tp1         |-> toLocaleString(OrZero(Get(sig, "tp1"))),
     tp2         |-> toLocaleString(OrZero(Get(sig, "tp2"))),
     contraction |-> IF Truthy(Get(sig, "contraction_ratio"))
                     THEN toFixed(Quot(sig.contraction_ratio, 100), 2)
                     ELSE "-",
     foreign     |-> toLocaleString(OrZero(Get(sig, "foreign_5d"))),
     inst        |-> toLocaleString(OrZero(Get(sig, "inst_5d")))]

\* the table renders the row of the signal
RenderRow ==
    /\ renderIn # NoRow
    /\ ~renderOut.rendered
    /\ renderOut' = [rendered |-> TRUE, table |-> TableRow(renderIn)]
    /\ UNCHANGED <<modalVars, histVars, netVars, renderIn>>

\* the row is clicked and the modal renders the same signal
RenderModal ==
    /\ renderOut.rendered
    /\ "modal" \notin DOMAIN renderOut
    /\ renderOut' = [rendered |-> TRUE, table |-> renderOut.table,
                     modal |-> ModalCells(renderIn)]
    /\ UNCHANGED <<modalVars, histVars, netVars, renderIn>>

InitRender ==
    /\ InitModal
    /\ histIn = <<>>
    /\ histOut = <<>>
    /\ histPc = "none"
    /\ apiCopy = "second"
    /\ envUrl = ""
    /\ NetIdle
    /\ renderIn \in RenderSignals
    /\ renderOut = NotRendered

NextRender ==
    \/ RenderRow
    \/ RenderModal

RenderSpec == InitRender /\ [][NextRender]_vars

\* ------------------------------------------------------------ type check
TypeOK ==
    /\ chartOpened \in BOOLEAN
    /\ loading \in BOOLEAN
    /\ analyzing \in BOOLEAN
    /\ containerReady \in BOOLEAN
    /\ error \in {NoError, ErrAnalysis, ErrInit, ErrLoad}
    /\ chartContainerRef \in 0..2
    /\ chartRef \in {0} \cup Ids
    /\ effectId \in {0} \cup Ids
    /\ clientWidth \in Widths
    /\ Cardinality(inflight) + orphaned <= MaxInflight
    /\ Cardinality(FreeIds(Cur)) >= 2
\* ================================================================ claims
Live == ChartIds(charts)
TimerIds == {t.id : t \in timers}

ViewCloses == chartOpened /\ ~chartOpened'
TickerChanges == signal # NoSignal /\ signal'.ticker # signal.ticker
ContainerUnmounts == chartContainerRef # 0 /\ chartContainerRef' = 0
ComponentUnmounts == signal # NoSignal /\ signal' = NoSignal

\* C1: at most one chart instance is live at any time, and it is the one
\* chartRef holds; a step that creates an instance leaves no instance that
\* was created earlier
C1_AtMostOneLive ==
    /\ [](Cardinality(charts) <= 1 /\ Live \subseteq {chartRef})
    /\ [][Live' \ Live # {} => Live' \cap Live = {}]_vars

\* a second instance is live after the first one of an earlier cycle, whose
\* request is still in flight, was removed
C1_Witness == Cardinality(charts) = 1 /\ orphaned > 0

\* C2: a live instance exists only while the view is open, an entity is
\* selected and the container is mounted; a change of ticker, a close of the
\* view and an unmount of the container dispose the live instance
C2_LiveOnlyWhileOpenSelectedMounted ==
    /\ [](charts # {} => /\ chartOpened
                         /\ signal # NoSignal
                         /\ selectedSignal # NoSignal
                         /\ containerReady
                         /\ chartContainerRef # 0)
    /\ [][Live' \ Live # {} => /\ chartOpened /\ chartOpened'
                                /\ signal # NoSignal /\ signal' = signal
                                /\ chartContainerRef # 0
                                /\ chartContainerRef' = chartContainerRef]_vars
    /\ [][ViewCloses \/ TickerChanges \/ ContainerUnmounts => charts' = {}]_vars

\* the view has been closed on a live instance and it is gone
C2_Witness ==
    /\ ~chartOpened
    /\ chartContainerRef # 0
    /\ orphaned > 0
    /\ charts = {}

\* C3 as stated: after a teardown trigger there is no live instance, no
\* pending timer and no resize listener at all
C3_Original ==
    /\ [][ViewCloses \/ TickerChanges \/ ContainerUnmounts \/ ComponentUnmounts
            => charts' = {} /\ timers' = {} /\ listeners' = {}]_vars
    /\ [](Cardinality(timers) <= 1 /\ Cardinality(listeners) <= 1)

\* C3 amended: a close, a container unmount and a component unmount leave no
\* instance, timer or listener; a change of ticker leaves no instance and
\* neither the timer nor the listener of the cycle it ended, and while the
\* view stays open on a mounted container the timer and the listener of the
\* next cycle are registered; never more than one timer or listener
C3_TeardownReleases ==
    /\ [][ViewCloses \/ ContainerUnmounts \/ ComponentUnmounts
            => charts' = {} /\ timers' = {} /\ listeners' = {}]_vars
    /\ [][TickerChanges
            => /\ charts' = {}
               /\ TimerIds' \cap (TimerIds \cup listeners) = {}
               /\ listeners' \cap (TimerIds \cup listeners) = {}
               /\ (chartOpened' /\ chartContainerRef' # 0
                     => TimerIds' = {effectId'} /\ listeners' = {effectId'})]_vars
    /\ [](Cardinality(timers) <= 1 /\ Cardinality(listeners) <= 1)

\* the view has been closed while the timer was pending: nothing is left
C3_Witness ==
    /\ ~chartOpened
    /\ chartContainerRef # 0
    /\ loading
    /\ timers = {} /\ listeners = {} /\ charts = {}
    /\ orphaned = 0

\* every pending timer is the one of the cycle whose cleanup is registered,
\* and that cycle's conditions still hold: a cycle that was torn down has no
\* timer left to fire
PendingTimersAreCurrent ==
    \A t \in timers : /\ t.id = effectId
                      /\ chartOpened
                      /\ chartContainerRef # 0
                      /\ t.ticker = signal.ticker

\* C4: the construction of a torn-down cycle never runs, no instance is
\* created against an unmounted container, and every instance is bound to
\* the mounted container and to the ticker the parent has selected
C4_NoStaleConstruction ==
    /\ []PendingTimersAreCurrent
    /\ [][\A c \in charts' : c.id \notin Live
            => /\ c.id \in TimerIds /\ c.id = effectId
               /\ c.node = chartContainerRef' /\ c.node # 0]_vars
    /\ [](\A c \in charts : /\ c.node = chartContainerRef
                            /\ c.ticker = selectedSignal.ticker)

\* the same with the ticker of the modal's own copy of the entity
C4_BoundToDisplayedTicker ==
    /\ []PendingTimersAreCurrent
    /\ [][\A c \in charts' : c.id \notin Live
            => /\ c.id \in TimerIds /\ c.id = effectId
               /\ c.node = chartContainerRef' /\ c.node # 0]_vars
    /\ [](\A c \in charts : /\ c.node = chartContainerRef
                            /\ c.ticker = signal.ticker)

\* C5: once the deferred construction of an open cycle has created its
\* instance, that instance is the only live one, whatever was created in
\* earlier cycles
C5_OneInstancePerOpen ==
    /\ [][\A t \in timers :
            initChart(t, "ok") \/ initChart(t, "addSeriesThrows")
                => Live' = {t.id} /\ chartRef' = t.id /\ effectId' = t.id]_vars
    /\ [](effectId # 0 /\ timers = {} /\ chartRef # 0 => Live = {effectId})

\* the construction has run in a cycle that follows one whose instance was
\* removed with its request still in flight
C5_Witness ==
    /\ effectId # 0
    /\ timers = {}
    /\ Live = {effectId}
    /\ inflight = {effectId}
    /\ orphaned > 0

\* C6: a rejected history fetch of the current cycle sets the inline error,
\* clears loading and leaves the chart instance alone; an instance is
\* removed only by a close, a change of ticker or an unmount
C6_FetchFailureKeepsChart ==
    /\ [][\A id \in inflight :
            id = effectId /\ HistoryFail(id)
                => /\ error' = ErrLoad
                   /\ ~loading'
                   /\ charts' = charts
                   /\ chartRef' = chartRef]_vars
    /\ [][Live \ Live' # {}
            => ViewCloses \/ TickerChanges \/ ContainerUnmounts]_vars

\* the fetch of the current cycle was rejected: error shown, chart live
C6_Witness ==
    /\ error = ErrLoad
    /\ ~loading
    /\ inflight = {}
    /\ effectId # 0
    /\ \E c \in charts : c.id = effectId /\ c.id = chartRef /\ c.data = <<>>

EmptyResponses == {r \in HistoryResponses : r.isNull \/ r.rows = <<>>}

\* C7: a history response of the current cycle without usable data (null or
\* empty) surfaces an inline error and does not destroy the instance
C7_EmptyDataShowsError ==
    [][\A id \in inflight : \A r \in EmptyResponses :
        id = effectId /\ HistorySuccess(id, r, FALSE)
            => error' # NoError /\ charts' = charts]_vars

\* C8: when createChart throws, the cycle ends with an inline error and with
\* loading cleared, and it starts no fetch and no further construction
C8_CreateFailureIsShown ==
    [][\A t \in timers :
        initChart(t, "createThrows")
            => /\ error' # NoError
               /\ ~loading'
               /\ inflight' = inflight
               /\ timers' = {}]_vars

\* ------------------------------------------------------ the sort claims
Count(s, P(_)) == Cardinality({i \in 1..Len(s) : P(s[i])})

\* out holds exactly the records of rows, each as often as rows does
SameRecords(rows, out) ==
    /\ Len(out) = Len(rows)
    /\ \A r \in Rows :
        LET IsR(x) == x = r
            IsPointOfR(x) == x.time = r.date /\ x.close = r.close
        IN Count(rows, IsR) = Count(out, IsPointOfR)

\* C9: the series handed to setData holds the records of the response, none
\* dropped and none twice, in non-decreasing order of date
C9_SortedPermutation ==
    histPc = "loaded"
        => /\ SameRecords(histIn, histOut)
           /\ \A i \in 1..(Len(histOut) - 1) : histOut[i].time <= histOut[i + 1].time

\* a response that came out of order and with a repeated day has been loaded
C9_Witness ==
    /\ histPc = "loaded"
    /\ \E i \in 1..(Len(histIn) - 1) : histIn[i].date > histIn[i + 1].date
    /\ \E i, j \in 1..Len(histIn) : i # j /\ histIn[i].date = histIn[j].date

\* C10: each point handed to setData has a timestamp strictly greater than
\* the one before it, also when the response repeats a day
C10_StrictlyAscending ==
    histPc = "loaded"
        => \A i \in 1..(Len(histOut) - 1) : histOut[i].time < histOut[i + 1].time

\* ---------------------------------------------------- the resize claim
\* C11: a window resize with a live instance sets the width of that
\* instance to the container's width and does nothing else: no instance is
\* created or removed, no fetch and no timer is started, and loading, error,
\* the displayed entity, the recommendation and the series stay as they
\* were; a resize with no live instance changes no state of the controller
C11_ResizeOnlyUpdatesWidth ==
    [][\A w \in Widths :
        handleResize(w)
            => /\ Live' = Live
               /\ chartRef' = chartRef
               /\ \A c \in charts' : \E d \in charts :
                    /\ c = [d EXCEPT !.width = c.width]
                    /\ c.width = IF d.id = chartRef THEN w ELSE d.width
               /\ charts = {} => charts' = {}
               /\ UNCHANGED <<chartOpened, selectedSignal, propId, loading,
                              analyzing, error, signal, analysisResult,
                              containerReady, chartContainerRef, syncDeps,
                              chartDeps, effectId, timers, listeners,
                              inflight, orphaned, analysisReq>>]_vars

\* a chart with its series loaded has been resized to a width it was not
\* created with
C11_Witness ==
    \E c \in charts : /\ c.id = chartRef
                      /\ c.width = 0
                      /\ c.width = clientWidth
                      /\ c.data # <<>>
                      /\ ~loading

\* ----------------------------------------------- deferred construction
\* C12: a step in which the effect's conditions (opened, ticker, container
\* ready) change creates no instance, it only arms the timer; an instance is
\* created only by a step that runs a timer armed in an earlier step, with
\* the conditions true before the step and unchanged by it
C12_ConstructionIsDeferred ==
    /\ [][chartDeps' # chartDeps \/ effectId' # effectId
            => /\ charts' = {}
               /\ (effectId' # 0 => TimerIds' = {effectId'})]_vars
    /\ [][Live' \ Live # {}
            => /\ (Live' \ Live) \subseteq TimerIds
               /\ TimerIds' \cap (Live' \ Live) = {}
               /\ chartDeps' = chartDeps
               /\ chartDeps = ChartDepsOf(Cur)
               /\ chartOpened /\ signal # NoSignal /\ containerReady]_vars

\* the conditions have become true and the timer is armed: no instance yet
C12_Witness ==
    /\ chartOpened
    /\ signal # NoSignal
    /\ containerReady
    /\ effectId # 0
    /\ TimerIds = {effectId}
    /\ charts = {}
    /\ loading

\* ------------------------------------------------- re-analysis claims
\* C13: when a re-analysis resolves with a response that carries a
\* recommendation, the displayed entity becomes the shallow merge of the
\* entity displayed before and the response: each field of the response has
\* the response's value, each field the response lacks keeps its value, and
\* the recommendation of the response is displayed
C13_ShallowMerge ==
    [][\A fresh \in AnalysisResponses(analysisReq) :
        ReAnalyzeSuccess(fresh) /\ "action" \in DOMAIN fresh
            => /\ DOMAIN signal' = DOMAIN signal \cup DOMAIN fresh
               /\ \A f \in DOMAIN fresh : signal'[f] = fresh[f]
               /\ \A f \in DOMAIN signal \ DOMAIN fresh : signal'[f] = signal[f]
               /\ analysisResult' = fresh.action]_vars

\* a response without a theme has been merged: the recommendation is BUY and
\* the theme is the one of the list entry
C13_Witness ==
    /\ signal.action = "BUY"
    /\ signal.theme = ListSignal(signal.ticker).theme
    /\ analysisResult = "BUY"
    /\ ~analyzing
    /\ error = NoError

\* a re-analysis ends in its catch branch: the request was rejected, or the
\* response has no gpt_recommendation and reading rec.source throws
ReAnalyzeEndsInFailure ==
    \/ ReAnalyzeFail
    \/ \E fresh \in AnalysisResponses(analysisReq) :
        ReAnalyzeSuccess(fresh) /\ "action" \notin DOMAIN fresh

\* C14: a re-analysis that ends in failure shows 'Analysis failed' and
\* clears analyzing, and neither its start nor its end changes the displayed
\* entity, the displayed recommendation, the chart instance or loading
C14_FailureLeavesDataAlone ==
    /\ [][ReAnalyzeEndsInFailure
            => /\ error' = ErrAnalysis
               /\ ~analyzing'
               /\ UNCHANGED <<signal, analysisResult, charts, chartRef,
                              loading>>]_vars
    /\ [][handleReAnalyze
            => UNCHANGED <<signal, analysisResult, charts, chartRef,
                           loading>>]_vars

\* the part of C14 that holds: a rejected request changes nothing but the
\* error message and the analyzing flag
C14_RejectionLeavesDataAlone ==
    [][ReAnalyzeFail
        => /\ error' = ErrAnalysis
           /\ ~analyzing'
           /\ UNCHANGED <<signal, analysisResult, charts, chartRef, loading,
                          timers, listeners, inflight, orphaned>>]_vars

\* what a chart cycle produces: the instances with their series, the ref,
\* the busy flag, and what the cycle still has pending
ChartOutcome(m) ==
    <<m.charts, m.chartRef, m.loading, m.timers, m.listeners, m.inflight,
      m.orphaned, m.effectId>>

\* the chart events that may run next in state m
ChartEvents(m) ==
    {[kind |-> "timer", t |-> t, o |-> o] : t \in m.timers, o \in Outcomes}
      \cup {[kind |-> "history", id |-> id, r |-> r] :
                id \in m.inflight, r \in HistoryResponses}
      \cup {[kind |-> "historyFail", id |-> id] : id \in m.inflight}

ApplyChartEvent(m, e) ==
    CASE e.kind = "timer" -> Settle(InitChartCallback(m, e.t, e.o))
      [] e.kind = "history" ->
            Settle(HistoryThen([m EXCEPT !.inflight = @ \ {e.id}],
                               e.id, e.r, FALSE))
      [] OTHER -> Settle(HistoryCatch([m EXCEPT !.inflight = @ \ {e.id}]))

\* the request in flight was issued for the entity on display
SameCycleRequest(m) == m.analysisReq # "" /\ m.analysisReq = m.signal.ticker

\* the states a re-analysis step of the displayed entity leads to from m
ReAnalysisSteps(m) ==
    (IF CanReAnalyze(m) THEN {Settle(ReAnalyzeStart(m))} ELSE {})
      \cup (IF SameCycleRequest(m)
            THEN {Settle(ReAnalyzeRejected(m))}
                   \cup {Settle(ReAnalyzeResolved(m, f)) :
                            f \in AnalysisResponses(m.analysisReq)}
            ELSE {})

\* a step of the chart cycle: the timer callback or a settlement of a
\* history request
ChartEventStep ==
    \/ \E t \in timers, o \in Outcomes : initChart(t, o)
    \/ \E id \in inflight, r \in HistoryResponses, th \in BOOLEAN :
            HistorySuccess(id, r, th)
    \/ \E r \in HistoryResponses, th \in BOOLEAN : OrphanSuccess(r, th)
    \/ \E id \in inflight : HistoryFail(id)
    \/ OrphanFail

\* a step of a re-analysis of the displayed entity
ReAnalysisStep ==
    \/ handleReAnalyze
    \/ /\ SameCycleRequest(Cur)
       /\ \/ ReAnalyzeFail
          \/ \E f \in AnalysisResponses(analysisReq) : ReAnalyzeSuccess(f)

\* C15: a re-analysis step for the displayed entity (start, response,
\* rejection) leaves the chart outcome as it is, and every chart event that
\* could run before the step can run after it with the same chart outcome,
\* so the chart ends the same in every interleaving; analyzing is true
\* exactly while a re-analysis request is in flight, and the re-analysis
\* steps do not write loading nor the chart steps analyzing
C15_ReAnalysisIndependentOfChart ==
    /\ [](\A m \in ReAnalysisSteps(Cur) :
            /\ ChartOutcome(m) = ChartOutcome(Cur)
            /\ ChartEvents(m) = ChartEvents(Cur)
            /\ \A e \in ChartEvents(Cur) :
                ChartOutcome(ApplyChartEvent(m, e))
                    = ChartOutcome(ApplyChartEvent(Cur, e)))
    /\ [](analyzing <=> analysisReq # "")
    /\ [][ReAnalysisStep => ChartOutcome(Cur)' = ChartOutcome(Cur)]_vars
    /\ [][ChartEventStep
            => UNCHANGED <<analyzing, analysisReq, analysisResult, signal>>]_vars

\* the chart of the cycle has loaded its series while the re-analysis of
\* the displayed entity is still in flight
C15_Witness ==
    /\ analyzing
    /\ analysisReq = signal.ticker
    /\ ~loading
    /\ \E c \in charts : c.id = chartRef /\ c.id = effectId /\ c.data # <<>>

\* ------------------------------------------- the parent's entity claim
ViewOpens == ~chartOpened /\ chartOpened'

\* the parent's value is written by the parent only, and every close and
\* every open of the view ends with the modal's copy equal to it and with no
\* recommendation on display
ParentValueIsSynced ==
    /\ [][selectedSignal' # selectedSignal
            => \/ \E t \in Tickers : handleSignalClick(t)
               \/ ComponentUnmount]_vars
    /\ [][ViewCloses \/ ViewOpens
            => signal' = selectedSignal' /\ analysisResult' = NoResult]_vars

\* C16: the controller never writes the parent's selected entity, a close
\* and an open of the view leave the modal's copy equal to it, and a
\* response to a re-analysis that was requested before the view was closed
\* and reopened on another entity leaves no field on display: the displayed
\* entity still equals the parent's
C16_LocalCopyDiscardedOnClose ==
    /\ ParentValueIsSynced
    /\ [][\A f \in AnalysisResponses(analysisReq) :
            ReAnalyzeSuccess(f) /\ analysisReq # signal.ticker
                => signal' = selectedSignal']_vars

\* the part of C16 that holds: the parent's value is never written by the
\* modal, the merged copy is dropped by the close, and the open starts from
\* the parent's entity
C16_SyncOnCloseAndOpen == ParentValueIsSynced

\* ------------------------------------------------ fetch layer claims
NonSuccess(out) == out.kind = "response" /\ ~Ok(out)

\* C17: a function of lib/api whose response has a status that is not
\* success returns a promise that is rejected, carries no body, and whose
\* message is 'Failed to fetch ' (GET) or 'Failed to post to ' (POST)
\* followed by the endpoint the function requested
C17_NonSuccessRejects ==
    [][\A out \in NetOutcomes :
        FetchSettle(out) /\ call.fn \in FetchFns /\ NonSuccess(out)
            => /\ promise'.state = "rejected"
               /\ promise'.value = NoValue
               /\ request.url = Endpoint(apiCopy, envUrl, call.fn, call.arg)
               /\ promise'.message =
                    (IF call.fn \in PostFns THEN "Failed to post to "
                     ELSE "Failed to fetch ") \o request.url]_vars

\* the re-analysis POST was answered with a status that is not success
C17_Witness ==
    /\ netPc = "settled"
    /\ call.fn = "fetchStockAnalysis"
    /\ request.method = "POST"
    /\ promise.state = "rejected"
    /\ promise.message = "Failed to post to " \o request.url

\* C18: fetchSignals requests the configured base URL followed by
\* '/signals' ('http://localhost:5000/api/kr/signals' when the environment
\* sets no base) with cache 'no-store', and on a success status resolves
\* with the parsed body
C18_FetchSignalsEndpoint ==
    /\ [](call.fn = "fetchSignals"
            => /\ request.url = API_BASE(envUrl) \o "/signals"
               /\ (envUrl = ""
                    => request.url = "http://localhost:5000/api/kr/signals")
               /\ request.method = "GET"
               /\ request.cache = "no-store")
    /\ [][\A out \in NetOutcomes :
            (FetchSettle(out) /\ call.fn = "fetchSignals"
                /\ out.kind = "response" /\ Ok(out) /\ IsJson(out.text))
                => promise' = Resolved(ParseJson(out.text))]_vars

\* the part of C18 that holds: the same for the second copy of the module
C18_SecondCopyEndpoint ==
    /\ [](call.fn = "fetchSignals" /\ apiCopy = "second"
            => /\ request.url = API_BASE(envUrl) \o "/signals"
               /\ (envUrl = ""
                    => request.url = "http://localhost:5000/api/kr/signals")
               /\ request.method = "GET"
               /\ request.cache = "no-store")
    /\ [][\A out \in NetOutcomes :
            (FetchSettle(out) /\ call.fn = "fetchSignals"
                /\ out.kind = "response" /\ Ok(out) /\ IsJson(out.text))
                => promise' = Resolved(ParseJson(out.text))]_vars

\* C19: every request the data-fetching code hands to fetch() has the cache
\* option 'no-store': the GET and POST calls of lib/api, the jongga-v2 feed,
\* its status endpoint and the screener run
C19_EveryRequestNoStore ==
    netPc # "idle" => request.cache = "no-store"

\* the part of C19 that holds: the requests of lib/api are 'no-store'
C19_LibRequestsNoStore ==
    call.fn \in FetchFns => request.cache = "no-store"

\* the fetch of a feed has ended in a transport failure or in a status
\* that is not success
FeedFetchFails(out) ==
    /\ FetchSettle(out)
    /\ FeedPage(call) # ""
    /\ out.kind = "networkError" \/ NonSuccess(out)

\* C20: when the fetch of a signal feed (Home's signals, ClosingPage's
\* jongga-v2) ends in a transport failure or a non-success status, the page
\* renders its full-view error state with the Retry button, not the table
C20_FeedFailureShowsErrorView ==
    [][\A out \in NetOutcomes :
        FeedFetchFails(out)
            => /\ pageView'.page = FeedPage(call)
               /\ pageView'.view = "error"]_vars

\* the part of C20 that holds: the same for the Home page, and for the
\* ClosingPage when the connection fails
C20_HomeFailureShowsErrorView ==
    [][\A out \in NetOutcomes :
        FeedFetchFails(out)
          /\ (FeedPage(call) = "home" \/ out.kind = "networkError")
            => /\ pageView'.page = FeedPage(call)
               /\ pageView'.view = "error"]_vars

\* ------------------------------------------------ the rendering claims
\* the band a score on the 0-100 scale belongs to
Band(q) ==
    IF q.num < 50 * q.den THEN "gray"
    ELSE IF q.num < 80 * q.den THEN "yellow"
    ELSE "teal"

\* C21: the normalized score is gray below 50 (0 included), yellow from 50
\* up to but not including 80, and teal from 80 on, in the table's score
\* cell and in the modal's radar score alike.
C21_ScoreBands ==
    /\ renderOut.rendered
         => renderOut.table.score.color = Band(niceScore(renderIn))
    /\ "modal" \in DOMAIN renderOut
         => renderOut.modal.score.color
              = Band(Quot(modalNiceScore(renderIn), 1))

\* a row scored 50 is yellow and its modal, scored 80, is teal
C21_Witness ==
    /\ "modal" \in DOMAIN renderOut
    /\ renderOut.table.score = [text |-> "50", color |-> "yellow"]
    /\ renderOut.modal.score = [text |-> "80", color |-> "teal"]

\* what the claim expects of the sampled supply-flow values
ExpectedSupply(v) ==
    CASE v = 1500000  -> [text |-> "+1.5M", color |-> "red"]
      [] v = 1000     -> [text |-> "+1.0K", color |-> "red"]
      [] v = 999      -> [text |-> "+999", color |-> "red"]
      [] v = -2300    -> [text |-> "2.3K", color |-> "blue"]
      [] v = -1000000 -> [text |-> "1.0M", color |-> "blue"]
      [] OTHER        -> [text |-> "0", color |-> "dimmed"]

\* the supply-flow cells of the rendered row show what is expected of
\* every present value that satisfies P
SupplyCellsAsExpected(P(_)) ==
    renderOut.rendered =>
        /\ ("foreign_5d" \in DOMAIN renderIn /\ P(renderIn.foreign_5d))
             => renderOut.table.foreign = ExpectedSupply(renderIn.foreign_5d)
        /\ ("inst_5d" \in DOMAIN renderIn /\ P(renderIn.inst_5d))
             => renderOut.table.inst = ExpectedSupply(renderIn.inst_5d)

AnyValue(v) == TRUE
NonZero(v) == v # 0

\* C22: the supply-flow cell shows the absolute value, with one decimal and
\* 'M' from 1,000,000, one decimal and 'K' from 1,000 and as it is below;
\* an inflow is red with a leading '+', an outflow blue without a sign.
C22_SupplyAbbreviation == SupplyCellsAsExpected(AnyValue)

\* the same holds of every value other than zero
C22_NonZeroAbbreviated == SupplyCellsAsExpected(NonZero)

\* an inflow of 1,500,000 and an outflow of 2,300 in one row
C22_Witness ==
    /\ renderOut.rendered
    /\ renderOut.table.foreign = [text |-> "+1.5M", color |-> "red"]
    /\ renderOut.table.inst = [text |-> "2.3K", color |-> "blue"]

Absent(f) == f \notin DOMAIN renderIn
NotANumber == {"NaN", "undefined"}

\* C23: a cell whose optional numeric field is absent from the signal
\* shows a placeholder ('-' or 0) in the table and in the modal, and no
\* cell shows NaN or undefined.
C23_AbsentRendersPlaceholder ==
    /\ renderOut.rendered =>
         LET row == renderOut.table IN
         /\ Absent("foreign_5d") => row.foreign.text = "-"
         /\ Absent("inst_5d") => row.inst.text = "-"
         /\ Absent("tp1") => row.tp1 = "0"
         /\ Absent("nice_layers") => row.score.text = ToString(renderIn.score)
                                     \/ renderIn.score > 100
         /\ {row.score.text, row.foreign.text, row.inst.text, row.tp1}
              \cap NotANumber = {}
    /\ "modal" \in DOMAIN renderOut =>
         LET m == renderOut.modal IN
         /\ Absent("tp1") => m.tp1 = "0"
         /\ Absent("tp2") => m.tp2 = "0"
         /\ Absent("contraction_ratio") => m.contraction = "-"
         /\ Absent("foreign_5d") => m.foreign = "0"
         /\ Absent("inst_5d") => m.inst = "0"
         /\ (Absent("nice_layers") /\ Absent("total_score"))
              => m.score.text = "0" /\ m.technical = 0
         /\ {m.score.text, m.tp1, m.tp2, m.contraction, m.foreign, m.inst}
              \cap NotANumber = {}

\* a signal with none of the optional fields, rendered in both views
C23_Witness ==
    /\ "modal" \in DOMAIN renderOut
    /\ DOMAIN renderIn = {"ticker", "score"}
    /\ renderOut.table.foreign.text = "-"
    /\ renderOut.modal.contraction = "-"

\* ------------------------------------------------- the empty feed claim
\* the signals fetch of a feed page settles with an empty list and count 0
EmptyFeedArrives(out) ==
    /\ FetchSettle(out)
    /\ FeedPage(call) # ""
    /\ out.kind = "response" /\ Ok(out) /\ out.text = EmptyFeed

ScreenerRunSettles(out) ==
    /\ FetchSettle(out)
    /\ call.fn = "runScreener"

\* the jongga-v2 feed is being fetched again
FeedRevalidates ==
    /\ netPc' = "sent"
    /\ call' = [fn |-> "fetcher", arg |-> FeedKey]
    /\ request' = FetcherRequest(envUrl, FeedKey)

\* C25: a screener run revalidates the jongga-v2 feed exactly when its POST
\* returns a success status; after a non-success status or a transport
\* error no request is sent and the page, its cached feed data included,
\* stays as it was.
C25_RevalidateIffRunSucceeds ==
    [][\A out \in NetOutcomes :
        ScreenerRunSettles(out)
            => /\ FeedRevalidates <=> (out.kind = "response" /\ Ok(out))
               /\ ~(out.kind = "response" /\ Ok(out))
                    => /\ pageView' = pageView
                       /\ netPc' = "settled"]_vars

\* a run has failed while the page shows a feed with two signals
C25_Witness ==
    /\ netPc = "settled"
    /\ call.fn = "runScreener"
    /\ pageView.page = "closing"
    /\ pageView.count = 2

\* ------------------------------------- the table and the modal compared
\* C26: the score cell of a signal's table row and the radar score of its
\* modal show the same integer in the same colour band.
C26_TableAgreesWithModal ==
    "modal" \in DOMAIN renderOut
        => renderOut.modal.score = renderOut.table.score

\* the part of C26 that holds: with nice_layers.total present and not zero
\* both views print the same integer
C26_SameIntegerFromLayers ==
    ("modal" \in DOMAIN renderOut
       /\ "nice_layers" \in DOMAIN renderIn
       /\ renderIn.nice_layers.total # 0)
        => renderOut.modal.score.text = renderOut.table.score.text

\* --------------------------------------------- responses of ended cycles
\* the history response of a cycle whose chart has been removed arrives
StaleHistoryResponse ==
    \/ \E resp \in HistoryResponses : \E throws \in BOOLEAN :
           OrphanSuccess(resp, throws)
    \/ OrphanFail

\* C27: the history response of a torn-down cycle, be it data, an empty
\* result or a failure, is ignored: it reaches no chart and changes neither
\* loading nor error of the cycle that is current when it arrives.
C27_StaleResponseIgnored ==
    [][StaleHistoryResponse => UNCHANGED <<loading, error, charts>>]_vars

\* the part of C27 that holds: no live chart receives the data of an
\* ended cycle
C27_StaleResponseLeavesChartsAlone ==
    [][StaleHistoryResponse => UNCHANGED <<charts, chartRef>>]_vars

\* ------------------------------------------------------ loading claims
\* nothing of the current chart cycle is pending: no deferred-construction
\* timer and no history request
NothingPending == timers = {} /\ inflight = {}

\* C28: whenever the view is open on its mounted container and neither a
\* deferred-construction timer nor a history fetch of the current cycle is
\* pending, loading is false; a parent render that hands over a new object
\* for the same ticker does not change that.
C28_LoadingNeverStuck ==
    (chartOpened /\ containerReady /\ NothingPending) => ~loading

\* the case of C28 the claim names: the parent renders again while the
\* view shows a loaded entity
C28_RerenderKeepsLoadingClear ==
    [][(ParentRerender /\ chartOpened /\ containerReady /\ NothingPending
            /\ ~loading)
        => ~loading']_vars

\* ------------------------------------------ re-analysis and its entity
\* C29: a re-analysis response is applied only to the entity it was
\* requested for: the ticker of the displayed entity is always the ticker
\* of the parent's selected entity, also when the selection changes or the
\* view is closed and reopened on another entity while the request is in
\* flight.
C29_DisplayedIsSelected == signal.ticker = selectedSignal.ticker

\* the part of C29 that holds: the only step after which the displayed
\* ticker differs from the selected one is the arrival of a response to a
\* request made for another entity
C29_OnlyStaleMergeBreaksIt ==
    [][(signal.ticker = selectedSignal.ticker
          /\ signal'.ticker # selectedSignal'.ticker)
        => /\ analysisReq # signal.ticker
           /\ \E f \in AnalysisResponses(analysisReq) : ReAnalyzeSuccess(f)]_vars

\* ------------------------------------------------- the inline error
\* a re-analysis resolves with a response that carries a recommendation
ReAnalysisSucceeds ==
    \E f \in AnalysisResponses(analysisReq) :
        ReAnalyzeSuccess(f) /\ "action" \in DOMAIN f

\* a step of the chart effect that starts a new cycle
NewChartCycle == effectId' # 0 /\ effectId' # effectId

\* after a successful re-analysis no 'Analysis failed' is on display
C30_SuccessClearsAnalysisError ==
    [][ReAnalysisSucceeds => error' # ErrAnalysis]_vars

\* the start of a chart cycle leaves a re-analysis error on display
C30_NewCycleKeepsAnalysisError ==
    [][(NewChartCycle /\ error = ErrAnalysis) => error' = ErrAnalysis]_vars

\* a failed re-analysis leaves a chart-load error on display
C30_FailureKeepsLoadError ==
    [][(ReAnalyzeEndsInFailure /\ error = ErrLoad) => error' = ErrLoad]_vars

\* C30: the inline error shows only the latest outcome of the concern that
\* set it: after a successful re-analysis no 'Analysis failed' of an
\* earlier attempt is on display, the start of a new chart cycle does not
\* erase a re-analysis error, and a failed re-analysis does not replace a
\* chart-load error.
C30_ErrorPerConcern ==
    /\ C30_SuccessClearsAnalysisError
    /\ C30_NewCycleKeepsAnalysisError
    /\ C30_FailureKeepsLoadError
====
